---- MODULE Spec2Model ----
(***************************************************************************)
(* HttpClient.request of paperswithcode/http.py as a state machine.        *)
(*                                                                         *)
(* One HttpClient object (its fields token, authorization_method, headers  *)
(* and response) is shared by a set of callers.  Every caller runs         *)
(* request() line by line; a step of the model is one statement of the     *)
(* function that reads or writes state another caller can see (the field   *)
(* self.response, the open transport clients), so that the interleavings   *)
(* of two calls on the same object are the interleavings of the model.     *)
(*                                                                         *)
(* Python values are modelled as follows.                                  *)
(*   - None is the empty tuple <<>>, a value x that may be None is <<x>>.  *)
(*   - A str that the code trims, joins or lower-cases is a tuple of       *)
(*     pieces: a method name is a tuple of characters, a token or header   *)
(*     value a tuple whose pieces are a blank " " or a run of non-blanks.  *)
(*   - A dict is a function from its keys.                                 *)
(*   - A response header value is a str, written [ty |-> "str", v |-> s];  *)
(*     an int literal of the code is [ty |-> "int", v |-> n].              *)
(***************************************************************************)
EXTENDS Integers, Sequences, FiniteSets, TLC

VARIABLES
    cfg,        \* the HttpClient fields token and authorization_method
    response,   \* the HttpClient field self.response
    call,       \* call[c]: the frame of caller c's request() invocation
    open        \* the callers whose httpx.Client is open

vars == <<cfg, response, call, open>>

(***************************************************************************)
(* Bounds of the model.                                                    *)
(***************************************************************************)
NCallers == 2

Callers == 1..NCallers

None == <<>>
Some(x) == <<x>>

(***************************************************************************)
(* Python values and the operations the code applies to them.              *)
(***************************************************************************)
PyStr(s) == [ty |-> "str", v |-> s]
PyInt(n) == [ty |-> "int", v |-> n]

\* a == b of Python, for a str or an int on either side: values of different
\* types are never equal.
PyEq(a, b) == a.ty = b.ty /\ a.v = b.v

IsBlank(p) == p = " "

RECURSIVE LStrip(_)
LStrip(s) == IF s # <<>> /\ IsBlank(Head(s)) THEN LStrip(Tail(s)) ELSE s

RECURSIVE RStrip(_)
RStrip(s) ==
    IF s # <<>> /\ IsBlank(s[Len(s)]) THEN RStrip(SubSeq(s, 1, Len(s) - 1)) ELSE s

\* str.strip()
Strip(s) == RStrip(LStrip(s))

LowerChar(ch) ==
    CASE ch = "G" -> "g" [] ch = "E" -> "e" [] ch = "T" -> "t"
      [] ch = "P" -> "p" [] ch = "O" -> "o" [] ch = "S" -> "s"
      [] ch = "U" -> "u" [] ch = "A" -> "a" [] ch = "C" -> "c"
      [] ch = "H" -> "h" [] ch = "D" -> "d" [] ch = "L" -> "l"
      [] OTHER -> ch

\* str.lower()
Lower(s) == [i \in DOMAIN s |-> LowerChar(s[i])]

\* {**a, **b}: the keys of b override those of a.
DictMerge(a, b) == b @@ a

\* d[k] = v
DictSet(d, k, v) == (k :> v) @@ d

\* d.get(k, None)
DictGet(d, k) == IF k \in DOMAIN d THEN Some(d[k]) ELSE None

EmptyDict == <<>>

(***************************************************************************)
(* AuthorizationMethod and the configurations of the client.               *)
(***************************************************************************)
AuthorizationMethod ==
    [basic |-> <<"Basic">>, token |-> <<"Token">>, jwt |-> <<"JWT">>]

Schemes == {"basic", "token", "jwt"}

\* The tokens a client is constructed with: empty, blank, and one with a
\* blank before it.
Tokens == {<<>>, <<" ">>, <<" ", "tok">>}

Configs == [token : Tokens, scheme : Schemes]

\* self.headers, set by __init__.
DefaultHeaders == ("Content-Type" :> <<"application/json">>)

(***************************************************************************)
(* The arguments of a call.                                                *)
(***************************************************************************)
Methods ==
    { <<"G", "E", "T">>, <<"p", "o", "s", "t">>, <<"P", "a", "t", "c", "h">>,
      <<"d", "e", "l", "e", "t", "e">>, <<"p", "u", "t">> }

\* The headers argument: None, or a dict that overrides Content-Type and
\* brings an Authorization of its own.
HeaderArgs ==
    { None,
      Some(("Authorization" :> <<"Bearer", " ", "mine">>)
           @@ ("Content-Type" :> <<"text/plain">>)) }

(***************************************************************************)
(* Responses of the transport: httpx.Response as the code reads it.        *)
(***************************************************************************)
Statuses == {200, 299, 300, 400, 404, 418, 429}

\* Response bodies: empty, not JSON, a JSON array, and the two JSON objects
\* the error paths look into.
BodyEmpty == ""
BodyMalformed == "{"
BodyList == "[]"
BodyError == "{\"error\": \"bad field\"}"
BodyMessage == "{\"message\": \"teapot\"}"

Bodies == {BodyEmpty, BodyMalformed, BodyList, BodyError, BodyMessage}

RLLimit == ("X-Ratelimit-Limit" :> PyStr("10"))
RLRemaining(s) == ("X-Ratelimit-Remaining" :> PyStr(s))
RLReset == ("X-Ratelimit-Reset" :> PyStr("30"))
RLRetry == ("X-Ratelimit-Retry" :> PyStr("5"))

\* The header sets of a response: no rate-limit header, all four with the
\* quota used up or not, and X-Ratelimit-Limit with one of the others missing.
ResponseHeaderSets ==
    { EmptyDict,
      RLLimit @@ RLRemaining("0") @@ RLReset @@ RLRetry,
      RLLimit @@ RLRemaining("1") @@ RLReset @@ RLRetry,
      RLLimit @@ RLReset @@ RLRetry,
      RLLimit @@ RLRemaining("0") @@ RLRetry,
      RLLimit @@ RLRemaining("0") @@ RLReset }

Responses == [status_code : Statuses, text : Bodies, headers : ResponseHeaderSets]

\* The integer a header value denotes.
HeaderInt(v) == CASE v.v = "0" -> 0 [] v.v = "1" -> 1 [] v.v = "5" -> 5
                  [] v.v = "10" -> 10 [] v.v = "30" -> 30

\* Response.json(): the parsed body, or ok = FALSE when the parser raises.
JsonLoads(text) ==
    CASE text = BodyList    -> [ok |-> TRUE, ty |-> "list", items |-> EmptyDict]
      [] text = BodyError   -> [ok |-> TRUE, ty |-> "dict",
                                items |-> ("error" :> "bad field")]
      [] text = BodyMessage -> [ok |-> TRUE, ty |-> "dict",
                                items |-> ("message" :> "teapot")]
      [] OTHER              -> [ok |-> FALSE, ty |-> "", items |-> EmptyDict]

\* The empty mapping {} returned for an empty body.
EmptyMapping == [ok |-> TRUE, ty |-> "dict", items |-> EmptyDict]

\* try: message = self.response.json()[key] / except Exception: message = dflt
ExtractField(text, key, dflt) ==
    LET j == JsonLoads(text)
    IN  IF j.ok /\ j.ty = "dict" /\ key \in DOMAIN j.items
        THEN j.items[key] ELSE dflt

\* The table without its entry for 404.
ERRORSWithout404 ==
    [s \in {401, 403, 409, 429, 500, 502, 503} |->
        CASE s = 401 -> "Unauthorized"
          [] s = 403 -> "Forbidden!"
          [] s = 409 -> "Conflict"
          [] s = 429 -> "Under pressure! (Too many requests)"
          [] s = 500 -> "You broke it!!!"
          [] s = 502 -> "Server not reachable."
          [] s = 503 -> "Server under maintenance."]

\* HttpClient.ERRORS
ERRORS ==
    [s \in {401, 403, 404, 409, 429, 500, 502, 503} |->
        CASE s = 401 -> "Unauthorized"
          [] s = 403 -> "Forbidden!"
          [] s = 404 -> "Not found."
          [] s = 409 -> "Conflict"
          [] s = 429 -> "Under pressure! (Too many requests)"
          [] s = 500 -> "You broke it!!!"
          [] s = 502 -> "Server not reachable."
          [] s = 503 -> "Server under maintenance."]

\* The range with its upper end left out.
Is2xxBelow299(status) == 200 <= status /\ status < 299

\* 200 <= self.response.status_code <= 299
Is2xx(status) == 200 <= status /\ status <= 299

(***************************************************************************)
(* Exceptions raised inside the try block (lines 94-129).  An exception is *)
(* its class name, the classes it is an instance of, what went wrong on    *)
(* the wire, and the arguments it was built with.                          *)
(***************************************************************************)
HttpxErrorBases == {"TransportError", "RequestError", "HTTPError", "Exception"}

Exc(name, bases, failure) ==
    [name |-> name, mro |-> {name} \cup bases, failure |-> failure,
     kind |-> name, message |-> <<>>, status_code |-> None]

\* What the transport call can raise: the timeouts and the connection failure
\* of httpx, a connection failure of the socket layer (a builtin
\* ConnectionError), and another transport error.
TransportExceptions ==
    { Exc("ConnectTimeout", {"TimeoutException"} \cup HttpxErrorBases, "timeout"),
      Exc("ReadTimeout", {"TimeoutException"} \cup HttpxErrorBases, "timeout"),
      Exc("ConnectError", {"NetworkError"} \cup HttpxErrorBases, "connect"),
      Exc("ConnectionRefusedError", {"ConnectionError", "OSError", "Exception"},
          "connect"),
      Exc("ReadError", {"NetworkError"} \cup HttpxErrorBases, "other") }

\* The classes errors.HttpClientError is an instance of.
HttpClientErrorBases == {"Exception"}

\* errors.HttpClientError(f"Unsupported method: {method}", status_code=405)
UnsupportedMethodError(method) ==
    [name |-> "HttpClientError",
     mro |-> {"HttpClientError"} \cup HttpClientErrorBases,
     failure |-> "none", kind |-> "UnsupportedMethod",
     message |-> <<"Unsupported method: ">> \o method, status_code |-> Some(405)]

IsInstance(e, cls) == cls \in e.mro

(***************************************************************************)
(* How a call ends: a returned value or a raised error.  kind names the    *)
(* raise statement by the error kind it stands for; the other fields are   *)
(* the class raised and the arguments the statement passes.                *)
(***************************************************************************)
NoOutcome ==
    [type |-> "none", cls |-> "", kind |-> "", message |-> <<>>,
     status_code |-> None, response |-> None, value |-> None, cause |-> None,
     limit |-> None, remaining |-> None, reset |-> None, retry |-> None]

Returned(v) == [NoOutcome EXCEPT !.type = "return", !.value = Some(v)]

Raised(cls, kind, message, resp, cause) ==
    [NoOutcome EXCEPT !.type = "raise", !.cls = cls, !.kind = kind,
                      !.message = message, !.response = resp, !.cause = cause]

\* An exception no except clause matches leaves request as it is.
Propagated(e) ==
    [NoOutcome EXCEPT !.type = "raise", !.cls = e.name, !.kind = e.kind,
                      !.message = e.message, !.status_code = e.status_code]

\* The except clauses with except Exception tried first.
HandleTryExceptionFirst(e) ==
    IF IsInstance(e, "Exception")
    THEN Raised("HttpClientError", "UnknownTransportError",
                <<"Unknown error. ", e.name>>, None, Some(e))
    ELSE IF IsInstance(e, "TimeoutException")
    THEN Raised("HttpClientTimeout", "RequestTimeout", <<>>, None, Some(e))
    ELSE Propagated(e)

\* The except clauses of lines 130-139, tried in order.
HandleTry(e) ==
    IF IsInstance(e, "TimeoutException")
    THEN Raised("HttpClientTimeout", "RequestTimeout", <<>>, None, Some(e))
    ELSE IF IsInstance(e, "ConnectionError")
    THEN Raised("HttpClientError", "ServerUnreachable",
                <<"Server not reachable.">>, None, Some(e))
    ELSE IF IsInstance(e, "Exception")
    THEN Raised("HttpClientError", "UnknownTransportError",
                <<"Unknown error. ", e.name>>, None, Some(e))
    ELSE Propagated(e)

\* errors.HttpRateLimitExceeded(response=, limit=, remaining=, reset=, retry=)
RateLimitExceeded(resp, limit, remaining, reset, retry) ==
    [Raised("HttpRateLimitExceeded", "RateLimitExceeded", <<>>, resp, None)
        EXCEPT !.limit = limit, !.remaining = remaining,
               !.reset = reset, !.retry = retry]

\* A KeyError of self.response.headers[key] leaves request as it is.
KeyError(key) == Raised("KeyError", "KeyError", <<key>>, None, None)

(***************************************************************************)
(* Lines 86-90: the headers of the request.                                *)
(***************************************************************************)
\* headers = {**self.headers, **(headers or {})}
MergeHeaders(arg) ==
    DictMerge(DefaultHeaders, IF arg = None THEN EmptyDict ELSE arg[1])

\* The test on the token without strip().
SetAuthorizationNoStrip(hs, c) ==
    IF c.token # <<>>
    THEN DictSet(hs, "Authorization",
                 AuthorizationMethod[c.scheme] \o <<" ">> \o c.token)
    ELSE hs

\* if self.token.strip() != "": headers["Authorization"] = f"{scheme} {token}"
SetAuthorization(hs, c) ==
    IF Strip(c.token) # <<>>
    THEN DictSet(hs, "Authorization",
                 AuthorizationMethod[c.scheme] \o <<" ">> \o c.token)
    ELSE hs

\* The method names the dispatch of lines 96-125 accepts, after lower().
SupportedMethods ==
    { <<"g", "e", "t">>, <<"p", "a", "t", "c", "h">>, <<"p", "o", "s", "t">>,
      <<"d", "e", "l", "e", "t", "e">> }

\* A client that is never closed.
ExitWithLeak(o, c) == o

\* Leaving the with block of line 95 closes the client, however it is left.
ExitWith(o, c) == o \ {c}

(***************************************************************************)
(* The frame of one request() invocation.  pc is the line the caller is    *)
(* at; sends counts the calls made on the transport client, sent is the    *)
(* request handed to it, got the response it returned to this caller and   *)
(* exc the exception raised inside the try block.                          *)
(***************************************************************************)
IdleFrame ==
    [pc |-> "idle", method |-> <<>>, argHeaders |-> None, headers |-> EmptyDict,
     sends |-> 0, sent |-> None, got |-> None, exc |-> None,
     limit |-> None, remaining |-> None, reset |-> None, retry |-> None,
     message |-> None, outcome |-> NoOutcome]

InFlight(c) == call[c].pc \notin {"idle", "done"}

Goto(c, line) == call' = [call EXCEPT ![c].pc = line]

Finish(c, out) == call' = [call EXCEPT ![c].pc = "done", ![c].outcome = out]

\* The try block raised e: the except clauses decide how request ends.
FinishTry(c, e) ==
    call' = [call EXCEPT ![c].pc = "done", ![c].exc = Some(e),
                         ![c].outcome = HandleTry(e)]

Init ==
    /\ cfg \in Configs
    /\ response = None
    /\ call = [c \in Callers |-> IdleFrame]
    /\ open = {}

\* Lines 59-92: request is entered with its arguments; the headers are
\* merged and the Authorization header is set.
Request(c, methods, headerArgs) ==
    /\ call[c].pc = "idle"
    /\ \E m \in methods, h \in headerArgs :
          call' = [call EXCEPT ![c] =
                      [IdleFrame EXCEPT !.pc = "L95", !.method = m,
                                        !.argHeaders = h,
                                        !.headers = SetAuthorization(MergeHeaders(h), cfg)]]
    /\ UNCHANGED <<cfg, response, open>>

\* Line 95: with httpx.Client(...) as client.
OpenClient(c) ==
    /\ call[c].pc = "L95"
    /\ open' = open \cup {c}
    /\ Goto(c, "L96")
    /\ UNCHANGED <<cfg, response>>

\* Lines 96-129: the dispatch on method.lower().  A supported method calls
\* the client; any other raises inside the with block and the try.
Dispatch(c) ==
    /\ call[c].pc = "L96"
    /\ IF Lower(call[c].method) \in SupportedMethods
       THEN /\ call' = [call EXCEPT ![c].pc = "wait",
                                    ![c].sends = @ + 1,
                                    ![c].sent = Some([verb |-> Lower(call[c].method),
                                                      headers |-> call[c].headers])]
            /\ open' = open
       ELSE /\ FinishTry(c, UnsupportedMethodError(call[c].method))
            /\ open' = ExitWith(open, c)
    /\ UNCHANGED <<cfg, response>>

\* The client call returns: self.response = client.<verb>(...), and the with
\* block is left.
TransportReturns(c, responses) ==
    /\ call[c].pc = "wait"
    /\ \E r \in responses :
          /\ response' = Some(r)
          /\ call' = [call EXCEPT ![c].pc = "L141", ![c].got = Some(r)]
    /\ open' = ExitWith(open, c)
    /\ UNCHANGED cfg

\* The client call raises: the with block is left and lines 130-139 handle it.
TransportRaises(c) ==
    /\ call[c].pc = "wait"
    /\ \E e \in TransportExceptions : FinishTry(c, e)
    /\ open' = ExitWith(open, c)
    /\ UNCHANGED <<cfg, response>>

\* Line 141: if 200 <= self.response.status_code <= 299
CheckStatus(c) ==
    /\ call[c].pc = "L141"
    /\ Goto(c, IF Is2xx(response[1].status_code) THEN "L143" ELSE "L151")
    /\ UNCHANGED <<cfg, response, open>>

\* Line 143, the condition: ... if self.response.text else {}
ReadText(c) ==
    /\ call[c].pc = "L143"
    /\ IF response[1].text # ""
       THEN Goto(c, "L143json")
       ELSE Finish(c, Returned(EmptyMapping))
    /\ UNCHANGED <<cfg, response, open>>

\* Line 143: return self.response.json()
ParseJson(c) ==
    /\ call[c].pc = "L143json"
    /\ LET j == JsonLoads(response[1].text)
       IN  IF j.ok THEN Finish(c, Returned(j)) ELSE Goto(c, "L145")
    /\ UNCHANGED <<cfg, response, open>>

\* Lines 144-148: the parser raised.
RaiseParseError(c) ==
    /\ call[c].pc = "L145"
    /\ Finish(c, Raised("HttpClientError", "ResponseParseError",
                        <<"Error while parsing server response: ", "JSONDecodeError">>,
                        response, None))
    /\ UNCHANGED <<cfg, response, open>>

\* Lines 151-152: limit = self.response.headers.get("X-Ratelimit-Limit", None)
ReadLimit(c) ==
    /\ call[c].pc = "L151"
    /\ LET limit == DictGet(response[1].headers, "X-Ratelimit-Limit")
       IN  call' = [call EXCEPT ![c].limit = limit,
                                ![c].pc = IF limit # None THEN "L153" ELSE "L167"]
    /\ UNCHANGED <<cfg, response, open>>

\* var = self.response.headers[key]: a missing key raises KeyError.
ReadHeader(c, line, key, var, next) ==
    /\ call[c].pc = line
    /\ IF key \in DOMAIN response[1].headers
       THEN call' = [call EXCEPT ![c][var] = Some(response[1].headers[key]),
                                 ![c].pc = next]
       ELSE Finish(c, KeyError(key))
    /\ UNCHANGED <<cfg, response, open>>

\* Line 153
ReadRemaining(c) == ReadHeader(c, "L153", "X-Ratelimit-Remaining", "remaining", "L154")

\* Line 154
ReadReset(c) == ReadHeader(c, "L154", "X-Ratelimit-Reset", "reset", "L155")

\* Line 155
ReadRetry(c) == ReadHeader(c, "L155", "X-Ratelimit-Retry", "retry", "L157")

\* Lines 157-164: if remaining == 0: raise errors.HttpRateLimitExceeded(...)
CheckRemaining(c) ==
    /\ call[c].pc = "L157"
    /\ IF PyEq(call[c].remaining[1], PyInt(0))
       THEN Finish(c, RateLimitExceeded(response, call[c].limit, call[c].remaining,
                                       call[c].reset, call[c].retry))
       ELSE Goto(c, "L167")
    /\ UNCHANGED <<cfg, response, open>>

\* Lines 167-168: message = self.ERRORS.get(self.response.status_code, None)
LookupStatus(c) ==
    /\ call[c].pc = "L167"
    /\ LET message == DictGet(ERRORS, response[1].status_code)
       IN  call' = [call EXCEPT ![c].message = message,
                                ![c].pc = IF message # None THEN "L169" ELSE "L171"]
    /\ UNCHANGED <<cfg, response, open>>

\* Line 169
RaiseKnown(c) ==
    /\ call[c].pc = "L169"
    /\ Finish(c, Raised("HttpClientError", "KnownHttpError", call[c].message,
                        response, None))
    /\ UNCHANGED <<cfg, response, open>>

\* Line 171: if self.response.status_code == 400
Check400(c) ==
    /\ call[c].pc = "L171"
    /\ Goto(c, IF response[1].status_code = 400 THEN "L173" ELSE "L180")
    /\ UNCHANGED <<cfg, response, open>>

\* Lines 172-175
ExtractError(c) ==
    /\ call[c].pc = "L173"
    /\ call' = [call EXCEPT ![c].message =
                                Some(ExtractField(response[1].text, "error", "Bad Request.")),
                            ![c].pc = "L176"]
    /\ UNCHANGED <<cfg, response, open>>

\* Line 176
RaiseBadRequest(c) ==
    /\ call[c].pc = "L176"
    /\ Finish(c, Raised("HttpClientError", "BadRequestError", call[c].message,
                        response, None))
    /\ UNCHANGED <<cfg, response, open>>

\* Lines 179-182
ExtractMessage(c) ==
    /\ call[c].pc = "L180"
    /\ call' = [call EXCEPT ![c].message =
                                Some(ExtractField(response[1].text, "message", "Unknown error.")),
                            ![c].pc = "L183"]
    /\ UNCHANGED <<cfg, response, open>>

\* Line 183
RaiseGeneric(c) ==
    /\ call[c].pc = "L183"
    /\ Finish(c, Raised("HttpClientError", "GenericHttpError", call[c].message,
                        response, None))
    /\ UNCHANGED <<cfg, response, open>>

\* The caller has the result of the call; its frame is gone.
Return(c) ==
    /\ call[c].pc = "done"
    /\ call' = [call EXCEPT ![c] = IdleFrame]
    /\ UNCHANGED <<cfg, response, open>>

\* The steps of a call after request is entered and the transport answered.
Classify(c) ==
    \/ CheckStatus(c) \/ ReadText(c) \/ ParseJson(c) \/ RaiseParseError(c)
    \/ ReadLimit(c) \/ ReadRemaining(c) \/ ReadReset(c) \/ ReadRetry(c)
    \/ CheckRemaining(c) \/ LookupStatus(c) \/ RaiseKnown(c) \/ Check400(c)
    \/ ExtractError(c) \/ RaiseBadRequest(c) \/ ExtractMessage(c)
    \/ RaiseGeneric(c)

(***************************************************************************)
(* Spec: the client used as the code itself uses it, one call at a time.   *)
(***************************************************************************)
RequestAlone(c) ==
    /\ \A d \in Callers : call[d].pc = "idle"
    /\ Request(c, Methods, HeaderArgs)

TransportAnswers(c) == TransportReturns(c, Responses)

Next ==
    \E c \in Callers :
        \/ RequestAlone(c) \/ OpenClient(c) \/ Dispatch(c)
        \/ TransportAnswers(c) \/ TransportRaises(c)
        \/ Classify(c) \/ Return(c)

Spec == Init /\ [][Next]_vars

(***************************************************************************)
(* SpecConc: the callers share the client and call request concurrently.   *)
(* The statements of the calls interleave; the inputs are a few of those   *)
(* of Spec: one configuration, a supported and an unsupported method, and  *)
(* four responses that take every path of the classification.              *)
(***************************************************************************)
ConcConfigs == {c \in Configs : c.token = <<" ", "tok">> /\ c.scheme = "jwt"}

ConcMethods == {<<"G", "E", "T">>, <<"p", "u", "t">>}

ConcHeaderArgs == {None}

ConcResponses ==
    { [status_code |-> 200, text |-> BodyMalformed, headers |-> EmptyDict],
      [status_code |-> 400, text |-> BodyError, headers |-> EmptyDict],
      [status_code |-> 418, text |-> BodyMessage, headers |-> EmptyDict],
      [status_code |-> 429, text |-> BodyEmpty,
       headers |-> RLLimit @@ RLRemaining("0") @@ RLReset @@ RLRetry] }

InitConc == Init /\ cfg \in ConcConfigs

RequestConc(c) == Request(c, ConcMethods, ConcHeaderArgs)

TransportAnswersConc(c) == TransportReturns(c, ConcResponses)

NextConc ==
    \E c \in Callers :
        \/ RequestConc(c) \/ OpenClient(c) \/ Dispatch(c)
        \/ TransportAnswersConc(c) \/ TransportRaises(c)
        \/ Classify(c) \/ Return(c)

SpecConc == InitConc /\ [][NextConc]_vars

(***************************************************************************)
(* The properties of request.                                              *)
(***************************************************************************)
Done(c) == call[c].pc = "done"

\* The error kinds of the taxonomy.
Taxonomy ==
    { "UnsupportedMethod", "RequestTimeout", "ServerUnreachable",
      "UnknownTransportError", "ResponseParseError", "RateLimitExceeded",
      "KnownHttpError", "BadRequestError", "GenericHttpError" }

\* The status codes of the known table.
KnownStatuses == {401, 403, 404, 409, 429, 500, 502, 503}

\* The bodies that are valid JSON.
ValidJsonBodies == {BodyList, BodyError, BodyMessage}

RateLimitHeaders ==
    { "X-Ratelimit-Limit", "X-Ratelimit-Remaining", "X-Ratelimit-Reset",
      "X-Ratelimit-Retry" }

\* Caller c got a non-2xx response with all four rate-limit headers whose
\* X-Ratelimit-Remaining is zero.
QuotaUsedUp(c) ==
    /\ call[c].got # None
    /\ call[c].got[1].status_code \notin 200..299
    /\ RateLimitHeaders \subseteq DOMAIN call[c].got[1].headers
    /\ HeaderInt(call[c].got[1].headers["X-Ratelimit-Remaining"]) = 0

\* C1: a finished call whose non-2xx response carries X-Ratelimit-Limit and an
\* X-Ratelimit-Remaining of zero has raised RateLimitExceeded with limit,
\* remaining, reset, retry and the response, whatever its status code (stated
\* for the responses that carry all four rate-limit headers).
C1_RateLimitFirst ==
    \A c \in Callers :
        Done(c) /\ QuotaUsedUp(c) =>
            /\ call[c].outcome.type = "raise"
            /\ call[c].outcome.kind = "RateLimitExceeded"
            /\ call[c].outcome.response = call[c].got
            /\ call[c].outcome.limit # None /\ call[c].outcome.remaining # None
            /\ call[c].outcome.reset # None /\ call[c].outcome.retry # None

\* C2: a finished call whose method, lower-cased, is none of get, post, patch
\* and delete has raised UnsupportedMethod with status code 405 and has made
\* no call on the transport client.
C2_UnsupportedMethod ==
    \A c \in Callers :
        Done(c) /\ Lower(call[c].method) \notin SupportedMethods =>
            /\ call[c].outcome.type = "raise"
            /\ call[c].outcome.kind = "UnsupportedMethod"
            /\ call[c].outcome.status_code = Some(405)
            /\ call[c].sends = 0

\* The value request returns for a 2xx response r.
ValueOf(r) == IF r.text = "" THEN EmptyMapping ELSE JsonLoads(r.text)

\* C3: under concurrent calls, a finished call that returned a value returned
\* the body of the response its own transport call received, and a finished
\* call whose error carries a response carries that same response.
C3_OwnResponse ==
    \A c \in Callers :
        Done(c) /\ call[c].got # None =>
            /\ call[c].outcome.type = "return" =>
                   call[c].outcome.value = Some(ValueOf(call[c].got[1]))
            /\ call[c].outcome.response # None =>
                   call[c].outcome.response = call[c].got

\* C4: a finished call has either returned a value or raised an error of one
\* of the kinds of the taxonomy.
C4_OnlyTaxonomy ==
    \A c \in Callers :
        Done(c) =>
            \/ call[c].outcome.type = "return" /\ call[c].outcome.value # None
            \/ call[c].outcome.type = "raise" /\ call[c].outcome.kind \in Taxonomy

\* The transport call of caller c ended in a timeout.
TimedOut(c) == call[c].exc # None /\ call[c].exc[1].failure = "timeout"

\* C5: a finished call whose transport call timed out has raised
\* RequestTimeout (class HttpClientTimeout), not UnknownTransportError or
\* ServerUnreachable, after exactly one call on the transport client.
C5_TimeoutSurfaced ==
    \A c \in Callers :
        Done(c) /\ TimedOut(c) =>
            /\ call[c].outcome.type = "raise"
            /\ call[c].outcome.kind = "RequestTimeout"
            /\ call[c].outcome.cls = "HttpClientTimeout"
            /\ call[c].sends = 1

\* A call raised RequestTimeout for a timeout of a POST.
C5_Witness ==
    \E c \in Callers :
        /\ Done(c) /\ TimedOut(c)
        /\ Lower(call[c].method) = <<"p", "o", "s", "t">>
        /\ call[c].outcome.kind = "RequestTimeout"

\* C6: a finished call whose transport call failed to connect, without timing
\* out, has raised ServerUnreachable.
C6_ServerUnreachable ==
    \A c \in Callers :
        Done(c) /\ call[c].exc # None /\ call[c].exc[1].failure = "connect" =>
            /\ call[c].outcome.type = "raise"
            /\ call[c].outcome.kind = "ServerUnreachable"

\* C7: a finished call whose response has a status in 200..299 has returned
\* the empty mapping for an empty body, the parsed value for a valid JSON
\* body, and has raised ResponseParseError with the response otherwise; it
\* has read no rate-limit header and looked up no message.
C7_Success ==
    \A c \in Callers :
        Done(c) /\ call[c].got # None /\ call[c].got[1].status_code \in 200..299 =>
            LET r == call[c].got[1]
                o == call[c].outcome
            IN  /\ r.text = "" => o = Returned(EmptyMapping)
                /\ r.text \in ValidJsonBodies =>
                       o.type = "return" /\ o.value = Some(JsonLoads(r.text))
                /\ r.text # "" /\ r.text \notin ValidJsonBodies =>
                       /\ o.type = "raise" /\ o.kind = "ResponseParseError"
                       /\ o.response = call[c].got
                /\ call[c].limit = None /\ call[c].remaining = None
                /\ call[c].message = None

\* A 299 with an empty body and a used-up quota in its headers returned the
\* empty mapping.
C7_Witness ==
    \E c \in Callers :
        /\ Done(c) /\ call[c].got # None
        /\ call[c].got[1].status_code = 299
        /\ call[c].got[1].text = ""
        /\ RateLimitHeaders \subseteq DOMAIN call[c].got[1].headers
        /\ call[c].got[1].headers["X-Ratelimit-Remaining"].v = "0"
        /\ call[c].outcome = Returned(EmptyMapping)

\* The call of c ended inside the rate-limit check of lines 151-164.
EndedInRateLimitCheck(c) == call[c].outcome.kind \in {"RateLimitExceeded", "KeyError"}

TokenNonBlank == \E i \in DOMAIN cfg.token : cfg.token[i] # " "

\* The headers argument of caller c has the key k.
ArgHas(c, k) == call[c].argHeaders # None /\ k \in DOMAIN call[c].argHeaders[1]

\* C9: the headers of every request handed to the transport have
\* Authorization equal to "<scheme> <token>" when the configured token is
\* not blank; when it is empty or blank they have Authorization only if the
\* caller supplied it, with the caller's value.
C9_Authorization ==
    \A c \in Callers :
        call[c].sent # None =>
            LET h == call[c].sent[1].headers
            IN  IF TokenNonBlank
                THEN /\ "Authorization" \in DOMAIN h
                     /\ h["Authorization"] =
                            AuthorizationMethod[cfg.scheme] \o <<" ">> \o cfg.token
                ELSE /\ "Authorization" \in DOMAIN h <=> ArgHas(c, "Authorization")
                     /\ ArgHas(c, "Authorization") =>
                            h["Authorization"] = call[c].argHeaders[1]["Authorization"]

\* A request is in flight whose caller supplied an Authorization header that
\* the configured token replaced.
C9_Witness ==
    \E c \in Callers :
        /\ call[c].pc = "wait" /\ call[c].sent # None
        /\ TokenNonBlank /\ ArgHas(c, "Authorization")
        /\ call[c].sent[1].headers["Authorization"] = <<"Token", " ", " ", "tok">>

\* C10: an open transport client belongs to a call in flight, so there are
\* at most as many open clients as calls in flight and none when no call is
\* in flight; a call that has returned or raised has closed its client.
C10_ClientScoped ==
    /\ \A c \in open : InFlight(c)
    /\ Cardinality(open) <= Cardinality({c \in Callers : InFlight(c)})
    /\ (\A c \in Callers : ~InFlight(c)) => open = {}
    /\ \A c \in Callers : Done(c) => c \notin open

\* A call has raised for an unsupported method, with its client closed,
\* while the client of another call is open.
C10_Witness ==
    \E c, d \in Callers :
        /\ c # d
        /\ Done(c) /\ call[c].sends = 0 /\ call[c].outcome.type = "raise"
        /\ c \notin open
        /\ d \in open /\ call[d].pc = "wait"

====
